---- MODULE Spec2Model ----
(***************************************************************************)
(* Model of the Google Form automation service.                            *)
(*                                                                         *)
(*   src/gform_v2.py  GoogleFormAutomation: the page loop of fill_form     *)
(*   src/app.py       the HTTP endpoints, the batch_jobs map and the       *)
(*                    background / synchronous batch loops                 *)
(*                                                                         *)
(* The browser and the language model are external: what they return is    *)
(* chosen nondeterministically (a page's question ids, the answer mapping, *)
(* the URL read from the driver, whether a button is found or a wait       *)
(* times out).  A form has finitely many pages; the browser advances one   *)
(* page when Next is clicked and the old page goes stale.                  *)
(*                                                                         *)
(* Every fill_form call works on its own object and its own locals, so the *)
(* model runs one fill_form call at a time; the batch loops of different   *)
(* jobs and requests interleave between calls.                             *)
(***************************************************************************)
EXTENDS Integers, Sequences, FiniteSets, TLC

\* ---------------------------------------------------------------- bounds
MaxRequests == 2      \* accepted POST requests
MaxRuns == 2          \* largest accepted value of runs that is explored
MaxPages == 2         \* pages of a form
MaxItems == 1         \* listitems of a page

\* ------------------------------------------------------ program constants
RunsLimit == 50

None == 0
EmptyDict == [k \in {} |-> "a"]
NoCaller == [kind |-> "none", job |-> 0, run |-> 0]
NoResponse == [code |-> 0]
NoRequest == [ep |-> "", form_url |-> "", runs |-> 0]

Digits == <<"1", "2", "3", "4", "5", "6", "7", "8", "9">>
\* str(q["id"]) for the ids the model uses
Str(n) == Digits[n]

Values == {"a", "b"}
KeyStrs == {Str(n) : n \in 1..MaxItems}
\* what json.loads can yield as a dict: JSON object keys are strings
AnswerDicts == UNION {[S -> Values] : S \in SUBSET KeyStrs}

ViewUrl == "https://f/viewform"
ResponseUrl == "https://f/formResponse"
OtherUrl == "https://f/closedform"
URLs == {ViewUrl, ResponseUrl, OtherUrl}
\* "formResponse" in url
HasFormResponse(u) == u = ResponseUrl

FormUrls == {"", ViewUrl}
RunsInputs == {-1, 0} \cup (1..MaxRuns) \cup {RunsLimit + 1}

VARIABLES
    \* app.py
    batch_jobs,           \* job id -> status record
    bg,                   \* background tasks: job id -> [runs, i, calls, done, outcomes]
    sync,                 \* locals of the batch-sync request in progress
    request,              \* the HTTP request the last step took in, if any
    response,             \* the HTTP response the last step sent, if any
    nreq,                 \* accepted POST requests so far
    caller,               \* who called the fill_form in progress
    \* GoogleFormAutomation object
    bot,                  \* identity of the object in use
    driver,               \* self.driver
    collected_answers,
    first_page_answers,
    \* fill_form
    pc,
    page_num,
    questions,
    answers,
    url_before,
    exc,                  \* exception leaving fill_form
    retval,               \* value returned by fill_form
    \* browser
    form_pages,           \* pages of the form that was opened
    bpage,                \* page the browser shows
    \* bookkeeping
    nbots,                \* objects constructed
    ndrivers,             \* drivers constructed
    trace,                \* steps of the current page iteration
    synth_log,            \* answer mappings synthesized, one per page iteration
    asked,                \* question list given to the last model call
    submit_observed,      \* the success branch of the submit step was taken
    driver_users          \* driver -> the objects that drove it

appVars == <<batch_jobs, bg, sync, nreq>>
objVars == <<bot, driver, collected_answers, first_page_answers, nbots>>
locVars == <<page_num, questions, answers, url_before>>
envVars == <<form_pages, bpage>>
logVars == <<trace, synth_log, asked, submit_observed>>
vars == <<batch_jobs, bg, sync, request, response, nreq, caller, bot, driver,
          collected_answers, first_page_answers, pc, page_num, questions,
          answers, url_before, exc, retval, form_pages, bpage,
          nbots, ndrivers, trace, synth_log, asked, submit_observed,
          driver_users>>

NoSync == [active |-> FALSE, runs |-> 0, i |-> 0, results |-> <<>>,
           successes |-> 0, failures |-> 0, outcomes |-> <<>>]

Init ==
    /\ batch_jobs = [j \in {} |-> 0]
    /\ bg = [j \in {} |-> 0]
    /\ sync = NoSync
    /\ request = NoRequest
    /\ response = NoResponse
    /\ nreq = 0
    /\ caller = NoCaller
    /\ bot = None
    /\ driver = None
    /\ collected_answers = EmptyDict
    /\ first_page_answers = EmptyDict
    /\ pc = "idle"
    /\ page_num = 0
    /\ questions = {}
    /\ answers = EmptyDict
    /\ url_before = ""
    /\ exc = ""
    /\ retval = EmptyDict
    /\ form_pages = 0
    /\ bpage = 0
    /\ nbots = 0
    /\ ndrivers = 0
    /\ trace = <<>>
    /\ synth_log = <<>>
    /\ asked = {}
    /\ submit_observed = FALSE
    /\ driver_users = [d \in {} |-> {}]

\* dict.update
Update(d, a) ==
    [k \in (DOMAIN d) \cup (DOMAIN a) |-> IF k \in DOMAIN a THEN a[k] ELSE d[k]]

\* ------------------------------------------------- GoogleFormAutomation
\* __init__ followed by the call of fill_form: a new object, no driver yet
Construct(c) ==
    /\ nbots' = nbots + 1
    /\ bot' = nbots + 1
    /\ driver' = None
    /\ collected_answers' = EmptyDict
    /\ first_page_answers' = EmptyDict
    /\ caller' = c
    /\ pc' = "setup"
    /\ page_num' = 0
    /\ questions' = {}
    /\ answers' = EmptyDict
    /\ url_before' = ""
    /\ exc' = ""
    /\ retval' = EmptyDict
    /\ form_pages' = 0
    /\ bpage' = 0
    /\ trace' = <<>>
    /\ synth_log' = <<>>
    /\ asked' = {}
    /\ submit_observed' = FALSE
    /\ UNCHANGED <<ndrivers, driver_users>>

\* mutant: the driver of the previous call is kept and used again
ReusedDriver == IF ndrivers = 0 THEN 1 ELSE ndrivers

\* the driver setup_driver stores in self.driver
NewDriver == ndrivers + 1

\* no request is taken in and no response is sent by this step
Quiet == response' = NoResponse /\ request' = NoRequest

\* what a step of fill_form never touches
Outside == UNCHANGED <<batch_jobs, bg, sync, nreq, caller, bot, nbots>> /\ Quiet

\* an exception leaves fill_form: its locals are gone, and nothing reads the
\* object or the browser again
Raise(e) ==
    /\ pc' = "raised"
    /\ exc' = e
    /\ page_num' = 0
    /\ questions' = {}
    /\ answers' = EmptyDict
    /\ url_before' = ""
    /\ collected_answers' = EmptyDict
    /\ first_page_answers' = EmptyDict
    /\ form_pages' = 0
    /\ bpage' = 0
    /\ trace' = <<>>
    /\ synth_log' = <<>>
    /\ asked' = {}
    /\ submit_observed' = FALSE
    /\ UNCHANGED <<driver, retval, ndrivers>>

\* the value fill_form returns
ReturnValue == first_page_answers

\* break, then driver.quit() and return
BreakAndReturn ==
    /\ pc' = "returned"
    /\ retval' = ReturnValue
    /\ page_num' = 0
    /\ questions' = {}
    /\ answers' = EmptyDict
    /\ url_before' = ""
    /\ form_pages' = 0
    /\ bpage' = 0
    /\ UNCHANGED <<driver, collected_answers, first_page_answers, exc, ndrivers,
                   synth_log, asked>>

setup_driver ==
    /\ pc = "setup"
    /\ driver' = NewDriver
    /\ ndrivers' = ndrivers + 1
    /\ pc' = "get"
    /\ UNCHANGED <<collected_answers, first_page_answers, locVars, exc, retval,
                   envVars, logVars, driver_users>>
    /\ Outside

\* driver.get(form_url) and the first wait for a listitem
OpenForm ==
    /\ pc = "get"
    /\ driver_users' = [d \in DOMAIN driver_users \cup {driver} |->
                          IF d \in DOMAIN driver_users /\ d # driver
                            THEN driver_users[d]
                            ELSE IF d \in DOMAIN driver_users
                              THEN driver_users[d] \cup {bot}
                              ELSE {bot}]
    /\ \/ /\ \E n \in 1..MaxPages : form_pages' = n
          /\ bpage' = 1
          /\ page_num' = 1
          /\ pc' = "loop"
          /\ UNCHANGED <<driver, collected_answers, first_page_answers,
                         questions, answers, url_before, exc, retval, ndrivers,
                         logVars>>
       \/ \E e \in {"TimeoutException", "WebDriverException"} : Raise(e)
    /\ Outside

\* top of the while loop: wait for a listitem of the page
LoopWait ==
    /\ pc = "loop"
    /\ \/ /\ pc' = "extract"
          /\ trace' = <<>>
          /\ UNCHANGED <<driver, collected_answers, first_page_answers, locVars,
                         exc, retval, ndrivers, envVars, synth_log, asked,
                         submit_observed>>
       \/ Raise("TimeoutException")
    /\ UNCHANGED driver_users
    /\ Outside

\* extract_questions: the ids of the listitems that have a heading
extract_questions ==
    /\ pc = "extract"
    /\ \/ /\ \E qs \in SUBSET (1..MaxItems) : questions' = qs
          /\ pc' = "synth"
          /\ trace' = Append(trace, "extract")
          /\ UNCHANGED <<driver, collected_answers, first_page_answers,
                         page_num, answers, url_before, exc, retval, ndrivers,
                         envVars, synth_log, asked, submit_observed>>
       \/ Raise("WebDriverException")
    /\ UNCHANGED driver_users
    /\ Outside

\* mutant: the store is not guarded by page_num == 1
LastPageStore(a) == a

\* self.first_page_answers after the model call of a page
FirstPageStore(a) == IF page_num = 1 THEN a ELSE first_page_answers

\* self.collected_answers after the model call of a page
CollectedStore(a) == Update(collected_answers, a)

\* get_ai_answers_batch(questions) and the two stores that follow it
get_ai_answers_batch ==
    /\ pc = "synth"
    /\ \/ /\ \E a \in AnswerDicts :
                /\ answers' = a
                /\ collected_answers' = CollectedStore(a)
                /\ first_page_answers' = FirstPageStore(a)
                /\ synth_log' = Append(synth_log, a)
          /\ asked' = questions
          /\ trace' = Append(trace, "synth")
          /\ pc' = "fill"
          /\ UNCHANGED <<driver, page_num, questions, url_before, exc, retval,
                         ndrivers, envVars, submit_observed>>
       \/ Raise("JSONDecodeError")
    /\ UNCHANGED driver_users
    /\ Outside

fill_page ==
    /\ pc = "fill"
    /\ \/ /\ pc' = "check"
          /\ trace' = Append(trace, "fill")
          /\ UNCHANGED <<driver, collected_answers, first_page_answers, locVars,
                         exc, retval, ndrivers, envVars, synth_log, asked,
                         submit_observed>>
       \/ Raise("WebDriverException")
    /\ UNCHANGED driver_users
    /\ Outside

\* mutant: the loop goes to the Next button without the validation check
SkipValidationCheck ==
    /\ pc = "check"
    /\ pc' = "next"
    /\ UNCHANGED <<driver, collected_answers, first_page_answers, locVars, exc,
                   retval, ndrivers, envVars, logVars, driver_users>>
    /\ Outside

\* check_validation_errors before the click; its result is not used
check_validation_errors ==
    /\ pc = "check"
    /\ pc' = "next"
    /\ trace' = Append(trace, "check")
    /\ UNCHANGED <<driver, collected_answers, first_page_answers, locVars, exc,
                   retval, ndrivers, envVars, synth_log, asked, submit_observed,
                   driver_users>>
    /\ Outside

\* mutant: a failure of the Next path starts the page over
RetryPage == "loop"

\* where the loop goes when the Next path raised
AfterNextFailure == "submit_find"

\* step 5: find Next, click it, wait for the old page to go stale
TryNext ==
    /\ pc = "next"
    /\ \/ \* no Next button, or the click raised
          /\ pc' = AfterNextFailure
          /\ UNCHANGED <<page_num, bpage, trace>>
       \/ \* clicked, the old page went stale
          /\ bpage < form_pages
          /\ bpage' = bpage + 1
          /\ page_num' = page_num + 1
          /\ trace' = Append(trace, "next")
          /\ pc' = "loop"
       \/ \* clicked, the staleness wait timed out
          /\ pc' = AfterNextFailure
          /\ trace' = Append(trace, "next")
          /\ UNCHANGED <<page_num, bpage>>
    /\ UNCHANGED <<driver, collected_answers, first_page_answers, questions,
                   answers, url_before, exc, retval, ndrivers, form_pages,
                   synth_log, asked, submit_observed, driver_users>>
    /\ Outside

\* step 6, first part: wait for a clickable Submit, read url_before
FindSubmit ==
    /\ pc = "submit_find"
    /\ \/ /\ \E u \in URLs : url_before' = u
          /\ pc' = "submit_click"
          /\ UNCHANGED <<driver, collected_answers, first_page_answers,
                         page_num, questions, answers, exc, retval, ndrivers,
                         envVars, logVars>>
       \/ \* TimeoutException, caught by the except of step 6
          /\ BreakAndReturn
          /\ UNCHANGED <<trace, submit_observed>>
    /\ UNCHANGED driver_users
    /\ Outside

\* the condition of the wait after the click and of the if that follows
UrlShowsSubmission(before, after) == after # before \/ HasFormResponse(after)

\* click Submit and wait for the URL to change
ClickSubmit ==
    /\ pc = "submit_click"
    /\ \/ \* both clicks raised: except of step 6
          /\ BreakAndReturn
          /\ UNCHANGED <<trace, submit_observed>>
       \/ \* clicked, the wait timed out: except of step 6
          /\ \E u \in URLs : ~UrlShowsSubmission(url_before, u)
          /\ trace' = Append(trace, "submit")
          /\ BreakAndReturn
          /\ UNCHANGED submit_observed
       \/ \* clicked, the wait saw the condition hold
          /\ \E u \in URLs : UrlShowsSubmission(url_before, u)
          /\ trace' = Append(trace, "submit")
          /\ pc' = "submit_read"
          /\ UNCHANGED <<driver, collected_answers, first_page_answers, locVars,
                         exc, retval, ndrivers, envVars, synth_log, asked,
                         submit_observed>>
    /\ UNCHANGED driver_users
    /\ Outside

\* whether the run counts as submitted, given the two URLs
SubmitSucceeded(before, after) == UrlShowsSubmission(before, after)

\* read url_after and decide; both branches break
ReadSubmitResult ==
    /\ pc = "submit_read"
    /\ \E url_after \in URLs :
          IF SubmitSucceeded(url_before, url_after)
            THEN /\ submit_observed' = TRUE
                 /\ UNCHANGED trace
            ELSE \* check_validation_errors again, screenshot
                 /\ trace' = Append(trace, "check")
                 /\ UNCHANGED submit_observed
    /\ BreakAndReturn
    /\ UNCHANGED driver_users
    /\ Outside

fill_form ==
    \/ setup_driver
    \/ OpenForm
    \/ LoopWait
    \/ extract_questions
    \/ get_ai_answers_batch
    \/ fill_page
    \/ check_validation_errors
    \/ TryNext
    \/ FindSubmit
    \/ ClickSubmit
    \/ ReadSubmitResult

\* ------------------------------------------------------------- app.py
\* the caller drops the object and the locals of the finished call
Release ==
    /\ pc' = "idle"
    /\ caller' = NoCaller
    /\ bot' = None
    /\ driver' = None
    /\ collected_answers' = EmptyDict
    /\ first_page_answers' = EmptyDict
    /\ exc' = ""
    /\ retval' = EmptyDict
    /\ form_pages' = 0
    /\ bpage' = 0
    /\ trace' = <<>>
    /\ synth_log' = <<>>
    /\ asked' = {}
    /\ submit_observed' = FALSE
    /\ UNCHANGED <<nbots, ndrivers, driver_users, locVars>>

\* what a handler step outside fill_form leaves alone
NoCall == UNCHANGED <<caller, objVars, pc, locVars, exc, retval, envVars,
                      ndrivers, logVars, driver_users>>

\* mutant: zero runs pass the check
RunsAcceptedFromZero(runs) == ~(runs < 0 \/ runs > RunsLimit)

\* the check of runs made by both batch endpoints
RunsAccepted(runs) == ~(runs <= 0 \/ runs > RunsLimit)

BadRequest(ep, detail) == [code |-> 400, ep |-> ep, detail |-> detail]

\* how a fill_form call ended, as its caller sees it
Returned(a) == [returned |-> a]
Raised(e) == [raised |-> e]

SuccessEntry(run, a) == [run |-> run, status |-> "success", answers |-> a]
ErrorEntry(run, e) == [run |-> run, status |-> "error", error |-> e]

\* POST /fill-form/ up to the call of fill_form
fill_google_form ==
    /\ pc = "idle"
    /\ \E url \in FormUrls :
          IF url = ""
            THEN /\ response' = BadRequest("fill", "Form URL is required")
                 /\ request' = [ep |-> "fill", form_url |-> url, runs |-> 0]
                 /\ NoCall
                 /\ UNCHANGED appVars
            ELSE /\ nreq < MaxRequests
                 /\ nreq' = nreq + 1
                 /\ Construct([kind |-> "single", job |-> 0, run |-> 1])
                 /\ response' = NoResponse
                 /\ request' = [ep |-> "fill", form_url |-> url, runs |-> 0]
                 /\ UNCHANGED <<batch_jobs, bg, sync>>

\* POST /fill-form/: fill_form returned
fill_google_form_return ==
    /\ pc = "returned"
    /\ caller.kind = "single"
    /\ response' = [code |-> 200, ep |-> "fill", status |-> "success",
                    message |-> "Form filled and submitted successfully",
                    answers |-> retval]
    /\ request' = NoRequest
    /\ Release
    /\ UNCHANGED appVars

\* POST /fill-form/: fill_form raised
fill_google_form_except ==
    /\ pc = "raised"
    /\ caller.kind = "single"
    /\ response' = [code |-> 200, ep |-> "fill", status |-> "error",
                    message |-> exc, answers |-> EmptyDict]
    /\ request' = NoRequest
    /\ Release
    /\ UNCHANGED appVars

\* str(uuid.uuid4()): an identifier no job has
NewJobId == Cardinality(DOMAIN batch_jobs) + 1

NewJob(job_id, url, runs) ==
    [job_id |-> job_id, form_url |-> url, total_runs |-> runs,
     completed_runs |-> 0, successful_submissions |-> 0,
     failed_submissions |-> 0, status |-> "running", results |-> <<>>]

\* POST /fill-form/batch
fill_google_form_batch ==
    /\ pc = "idle"
    /\ \E url \in FormUrls, runs \in RunsInputs :
          /\ request' = [ep |-> "batch", form_url |-> url, runs |-> runs]
          /\ IF url = ""
            THEN /\ response' = BadRequest("batch", "Form URL is required")
                 /\ UNCHANGED appVars
            ELSE IF ~RunsAccepted(runs)
              THEN /\ response' = BadRequest("batch", "runs must be between 1 and 50")
                   /\ UNCHANGED appVars
              ELSE /\ nreq < MaxRequests
                   /\ nreq' = nreq + 1
                   /\ batch_jobs' = [j \in DOMAIN batch_jobs \cup {NewJobId} |->
                                       IF j = NewJobId THEN NewJob(NewJobId, url, runs)
                                                       ELSE batch_jobs[j]]
                   /\ bg' = [j \in DOMAIN bg \cup {NewJobId} |->
                               IF j = NewJobId
                                 THEN [runs |-> runs, i |-> 0, calls |-> 0, done |-> FALSE,
                                       outcomes |-> <<>>]
                                 ELSE bg[j]]
                   /\ response' = [code |-> 200, ep |-> "batch", status |-> "started",
                                   job_id |-> NewJobId]
                   /\ UNCHANGED sync
    /\ NoCall

\* GET /batch-status/{job_id}
get_batch_status ==
    /\ pc = "idle"
    /\ \E j \in 1..(MaxRequests + 1) :
          response' = IF j \notin DOMAIN batch_jobs
                        THEN [code |-> 404, ep |-> "status", detail |-> "Job not found"]
                        ELSE [code |-> 200, ep |-> "status", job |-> batch_jobs[j]]
    /\ request' = [ep |-> "status", form_url |-> "", runs |-> 0]
    /\ UNCHANGED appVars
    /\ NoCall

\* run_batch_job, loop body up to the call of fill_form
run_batch_job_start(j) ==
    /\ pc = "idle"
    /\ ~bg[j].done
    /\ bg[j].i < bg[j].runs
    /\ Construct([kind |-> "batch", job |-> j, run |-> bg[j].i + 1])
    /\ bg' = [bg EXCEPT ![j].calls = @ + 1]
    /\ Quiet
    /\ UNCHANGED <<batch_jobs, sync, nreq>>

\* the index the loop of a batch has after a run
NextIndex(i) == i + 1

\* mutant: a successful run marks the job completed
JobAfterSuccessCompletes(job, run, a) ==
    [job EXCEPT !.completed_runs = run,
                !.successful_submissions = @ + 1,
                !.results = Append(@, SuccessEntry(run, a)),
                !.status = "completed"]

\* the record of a job after run number run returned answers a
JobAfterSuccess(job, run, a) ==
    [job EXCEPT !.completed_runs = run,
                !.successful_submissions = @ + 1,
                !.results = Append(@, SuccessEntry(run, a))]

\* mutant: a failed run is counted but leaves no entry
JobAfterFailureNoEntry(job, run, e) ==
    [job EXCEPT !.completed_runs = run,
                !.failed_submissions = @ + 1]

\* mutant: a failed run marks the job failed
JobAfterFailureFails(job, run, e) ==
    [job EXCEPT !.completed_runs = run,
                !.failed_submissions = @ + 1,
                !.results = Append(@, ErrorEntry(run, e)),
                !.status = "failed"]

\* the record of a job after run number run raised e
JobAfterFailure(job, run, e) ==
    [job EXCEPT !.completed_runs = run,
                !.failed_submissions = @ + 1,
                !.results = Append(@, ErrorEntry(run, e))]

\* run_batch_job, the rest of the try block
run_batch_job_success(j) ==
    /\ pc = "returned"
    /\ caller.kind = "batch"
    /\ caller.job = j
    /\ batch_jobs' = [batch_jobs EXCEPT ![j] = JobAfterSuccess(@, bg[j].i + 1, retval)]
    /\ bg' = [bg EXCEPT ![j].i = NextIndex(@),
                        ![j].outcomes = Append(@, Returned(retval))]
    /\ Release
    /\ Quiet
    /\ UNCHANGED <<sync, nreq>>

\* run_batch_job, the except block
run_batch_job_except(j) ==
    /\ pc = "raised"
    /\ caller.kind = "batch"
    /\ caller.job = j
    /\ batch_jobs' = [batch_jobs EXCEPT ![j] = JobAfterFailure(@, bg[j].i + 1, exc)]
    /\ bg' = [bg EXCEPT ![j].i = NextIndex(@),
                        ![j].outcomes = Append(@, Raised(exc))]
    /\ Release
    /\ Quiet
    /\ UNCHANGED <<sync, nreq>>

\* the status run_batch_job stores after the loop
FinalStatus == "completed"

\* run_batch_job, after the loop
run_batch_job_complete(j) ==
    /\ pc = "idle"
    /\ ~bg[j].done
    /\ bg[j].i = bg[j].runs
    /\ batch_jobs' = [batch_jobs EXCEPT ![j].status = FinalStatus]
    /\ bg' = [bg EXCEPT ![j].done = TRUE]
    /\ Quiet
    /\ UNCHANGED <<sync, nreq>>
    /\ NoCall

run_batch_job ==
    \E j \in DOMAIN bg :
        \/ run_batch_job_start(j)
        \/ run_batch_job_success(j)
        \/ run_batch_job_except(j)
        \/ run_batch_job_complete(j)

\* POST /fill-form/batch-sync up to the loop
fill_google_form_batch_sync ==
    /\ pc = "idle"
    /\ ~sync.active
    /\ \E url \in FormUrls, runs \in RunsInputs :
         /\ request' = [ep |-> "sync", form_url |-> url, runs |-> runs]
         /\ IF url = ""
           THEN /\ response' = BadRequest("sync", "Form URL is required")
                /\ UNCHANGED <<sync, nreq>>
           ELSE IF ~RunsAccepted(runs)
             THEN /\ response' = BadRequest("sync", "runs must be between 1 and 50")
                  /\ UNCHANGED <<sync, nreq>>
             ELSE /\ nreq < MaxRequests
                  /\ nreq' = nreq + 1
                  /\ sync' = [active |-> TRUE, runs |-> runs, i |-> 0,
                              results |-> <<>>, successes |-> 0, failures |-> 0,
                              outcomes |-> <<>>]
                  /\ response' = NoResponse
    /\ UNCHANGED <<batch_jobs, bg>>
    /\ NoCall

\* batch-sync, loop body up to the call of fill_form
batch_sync_start ==
    /\ pc = "idle"
    /\ sync.active
    /\ sync.i < sync.runs
    /\ Construct([kind |-> "sync", job |-> 0, run |-> sync.i + 1])
    /\ Quiet
    /\ UNCHANGED appVars

\* batch-sync, the rest of the try block
batch_sync_success ==
    /\ pc = "returned"
    /\ caller.kind = "sync"
    /\ sync' = [sync EXCEPT !.results = Append(@, SuccessEntry(sync.i + 1, retval)),
                            !.successes = @ + 1,
                            !.i = NextIndex(@),
                            !.outcomes = Append(@, Returned(retval))]
    /\ Release
    /\ Quiet
    /\ UNCHANGED <<batch_jobs, bg, nreq>>

\* batch-sync, the except block
batch_sync_except ==
    /\ pc = "raised"
    /\ caller.kind = "sync"
    /\ sync' = [sync EXCEPT !.results = Append(@, ErrorEntry(sync.i + 1, exc)),
                            !.failures = @ + 1,
                            !.i = NextIndex(@),
                            !.outcomes = Append(@, Raised(exc))]
    /\ Release
    /\ Quiet
    /\ UNCHANGED <<batch_jobs, bg, nreq>>

\* mutant: every entry is counted as a success
SyncResponseCountsAll ==
    [code |-> 200, ep |-> "sync", status |-> "completed",
     total_runs |-> sync.runs,
     successful_submissions |-> Len(sync.results),
     failed_submissions |-> sync.failures,
     results |-> sync.results]

\* the dict batch-sync returns
SyncResponse ==
    [code |-> 200, ep |-> "sync", status |-> "completed",
     total_runs |-> sync.runs,
     successful_submissions |-> sync.successes,
     failed_submissions |-> sync.failures,
     results |-> sync.results]

\* batch-sync, after the loop: the response
batch_sync_return ==
    /\ pc = "idle"
    /\ sync.active
    /\ sync.i = sync.runs
    /\ response' = SyncResponse
    /\ request' = NoRequest
    /\ sync' = NoSync
    /\ UNCHANGED <<batch_jobs, bg, nreq>>
    /\ NoCall

Next ==
    \/ fill_form
    \/ fill_google_form
    \/ fill_google_form_return
    \/ fill_google_form_except
    \/ fill_google_form_batch
    \/ get_batch_status
    \/ run_batch_job
    \/ fill_google_form_batch_sync
    \/ batch_sync_start
    \/ batch_sync_success
    \/ batch_sync_except
    \/ batch_sync_return

Spec == Init /\ [][Next]_vars

\* POST /fill-form/ alone: one fill_form call after another
NextForm ==
    \/ fill_form
    \/ fill_google_form
    \/ fill_google_form_return
    \/ fill_google_form_except

SpecForm == Init /\ [][NextForm]_vars

\* every wait of fill_form has a timeout, so a started call keeps taking steps
LiveSpec == Init /\ [][NextForm]_vars /\ WF_vars(fill_form)

\* ------------------------------------------------------------- claims

IsPrefix(p, q) == Len(p) <= Len(q) /\ SubSeq(q, 1, Len(p)) = p

Jobs == DOMAIN batch_jobs

\* a step in which a caller reports the finished run as a success
ReportsSuccess ==
    \/ fill_google_form_return
    \/ \E j \in DOMAIN bg : run_batch_job_success(j)
    \/ batch_sync_success

\* C1: whenever a run is reported as successful (by POST /fill-form/, by a
\* background batch or by a synchronous batch), the submit step of that run
\* observed a successful submission.
C1_SuccessMeansSubmitted == [][ReportsSuccess => submit_observed]_vars

\* the steps of one page iteration up to the first click, in the order of the loop
PageSteps == <<"extract", "synth", "fill", "check">>

\* the clicks that may follow them
ClickTails == {<<>>, <<"next">>, <<"submit">>, <<"next", "submit">>}

\* page iterations in which every step ran at most once
OnceEach == {PageSteps \o t : t \in ClickTails}

\* the same, with the second validation check that follows a Submit whose
\* URL test failed
WithRecheck == OnceEach \cup {PageSteps \o t \o <<"check">> :
                               t \in {<<"submit">>, <<"next", "submit">>}}

\* the model call of the current page iteration got the whole question list
WholeListAsked == ("synth" \in {trace[k] : k \in DOMAIN trace}) => asked = questions

\* C2 as claimed: in every page iteration extract, one model call with the
\* whole question list, fill and the validation check happen exactly once each
\* and in this order, and only then Next or Submit is clicked.
C2_StepsOnceInOrder ==
    /\ \E t \in OnceEach : IsPrefix(trace, t)
    /\ (pc \in {"fill", "check", "next", "submit_find", "submit_click", "submit_read"}
          => WholeListAsked)

\* C2 as amended: extract, one model call with the whole question list, fill
\* and the validation check happen exactly once each and in this order before
\* any click; the only step that can repeat is the validation check, once more
\* after a Submit click whose URL test failed.
C2_StepsInOrderBeforeClick ==
    /\ \E t \in WithRecheck : IsPrefix(trace, t)
    /\ (pc \in {"fill", "check", "next", "submit_find", "submit_click", "submit_read"}
          => WholeListAsked)

\* a second page was extracted, synthesized, filled and checked, Next was
\* clicked without effect, Submit was clicked and its URL test failed
C2_Witness ==
    /\ pc = "returned"
    /\ Len(synth_log) = 2
    /\ trace = <<"extract", "synth", "fill", "check", "next", "submit", "check">>

\* the number of result entries of a job with the given status
CountStatus(results, st) ==
    Cardinality({k \in DOMAIN results : results[k].status = st})

\* C3: when a batch job accepted with runs = N is completed, fill_form was
\* called exactly N times, results holds N entries numbered 1..N in order,
\* completed_runs = total_runs = N, and the two counters add up to N with
\* successful_submissions the number of success entries.
C3_CompletedJobIsWhole ==
    \A j \in Jobs :
        batch_jobs[j].status = "completed" =>
            LET job == batch_jobs[j]
                N == bg[j].runs
            IN /\ bg[j].calls = N
               /\ Len(job.results) = N
               /\ \A k \in 1..N : job.results[k].run = k
               /\ job.total_runs = N
               /\ job.completed_runs = N
               /\ job.successful_submissions + job.failed_submissions = N
               /\ job.successful_submissions = CountStatus(job.results, "success")

\* a completed job of two runs, one failed and one successful
C3_Witness ==
    \E j \in Jobs :
        /\ batch_jobs[j].status = "completed"
        /\ batch_jobs[j].total_runs = 2
        /\ batch_jobs[j].results[1].status = "error"
        /\ batch_jobs[j].results[2].status = "success"

BatchRequest == request'.ep \in {"batch", "sync"}

\* what stays as it was when a request is turned down
Untouched == UNCHANGED <<batch_jobs, bg, sync, nreq, pc, caller, bot, nbots, ndrivers>>

\* C5: a batch request is accepted only when 1 <= runs <= 50; with runs <= 0
\* or runs > 50 it gets a 400, and then no job record is added, no background
\* task is scheduled and no run is executed.
C5_RunsValidated ==
    [][BatchRequest =>
         /\ (request'.runs <= 0 \/ request'.runs > 50) =>
                response'.code = 400 /\ Untouched
         /\ response'.code # 400 =>
                /\ 1 <= request'.runs /\ request'.runs <= 50
                /\ (request'.ep = "batch" =>
                      /\ Jobs' = Jobs \cup {response'.job_id}
                      /\ response'.job_id \notin Jobs
                      /\ batch_jobs'[response'.job_id].total_runs = request'.runs)
                /\ (request'.ep = "sync" => sync'.active /\ sync'.runs = request'.runs)
         /\ response'.code = 400 => Untouched
    ]_vars

\* a request with runs = 51 was turned down while a job was in the map
C5_Witness ==
    /\ request.ep = "batch"
    /\ request.runs = RunsLimit + 1
    /\ request.form_url # ""
    /\ response.code = 400
    /\ Jobs # {}

\* C6: the value fill_form returns is the answer mapping synthesized for the
\* first page, whatever was synthesized for later pages.
C6_ReturnsFirstPageAnswers ==
    pc = "returned" => Len(synth_log) >= 1 /\ retval = synth_log[1]

\* two pages were processed and their answer mappings differ
C6_Witness ==
    /\ pc = "returned"
    /\ Len(synth_log) = 2
    /\ synth_log[2] # synth_log[1]
    /\ synth_log[2] # EmptyDict

\* a step in which the batch loop of job j handles a raised fill_form
FailureStep(j) == pc = "raised" /\ caller.kind = "batch" /\ caller.job = j /\ pc' = "idle"

\* a step in which the synchronous batch handles a raised fill_form
SyncFailureStep == pc = "raised" /\ caller.kind = "sync" /\ pc' = "idle"

\* C7: a run that raises does not abort the batch: an entry with status
\* "error" and the run's number is appended, failed_submissions grows by one,
\* successful_submissions stays, and the loop goes on to the next run; a job
\* is completed only after all its runs were executed.
C7_FailureDoesNotAbort ==
    [][/\ \A j \in DOMAIN bg :
             /\ FailureStep(j) =>
                  LET old == batch_jobs[j]
                      new == batch_jobs'[j]
                  IN /\ Len(new.results) = Len(old.results) + 1
                     /\ SubSeq(new.results, 1, Len(old.results)) = old.results
                     /\ new.results[Len(new.results)].status = "error"
                     /\ new.results[Len(new.results)].run = caller.run
                     /\ new.results[Len(new.results)].error = exc
                     /\ new.failed_submissions = old.failed_submissions + 1
                     /\ new.successful_submissions = old.successful_submissions
                     /\ new.status = "running"
                     /\ ~bg'[j].done
                     /\ bg'[j].i = caller.run
                     /\ bg'[j].runs = bg[j].runs
             /\ (batch_jobs[j].status = "running" /\ batch_jobs'[j].status = "completed")
                   => bg[j].calls = bg[j].runs
       /\ SyncFailureStep =>
             /\ sync'.results = Append(sync.results,
                                       [run |-> caller.run, status |-> "error", error |-> exc])
             /\ sync'.failures = sync.failures + 1
             /\ sync'.successes = sync.successes
             /\ sync'.active
             /\ sync'.i = caller.run
             /\ sync'.runs = sync.runs
    ]_vars

\* the first run of a job failed and its second run was executed and recorded
C7_Witness ==
    \E j \in Jobs :
        /\ Len(batch_jobs[j].results) = 2
        /\ batch_jobs[j].results[1].status = "error"
        /\ batch_jobs[j].failed_submissions = 1
        /\ batch_jobs[j].successful_submissions = 1

\* C8: a job record is created running with all counters zero; it stays
\* running until all its runs are recorded, then becomes completed once and
\* never changes again; completed implies completed_runs = total_runs, and
\* completed_runs never decreases.
C8_JobLifecycle ==
    [][/\ Jobs \subseteq Jobs'
       /\ \A j \in Jobs' \ Jobs :
             /\ batch_jobs'[j].status = "running"
             /\ batch_jobs'[j].completed_runs = 0
             /\ batch_jobs'[j].successful_submissions = 0
             /\ batch_jobs'[j].failed_submissions = 0
             /\ batch_jobs'[j].results = <<>>
       /\ \A j \in Jobs :
             /\ batch_jobs[j].status \in {"running", "completed"}
             /\ batch_jobs[j].status = "completed" => batch_jobs'[j] = batch_jobs[j]
             /\ batch_jobs[j].status = "completed" =>
                   batch_jobs[j].completed_runs = batch_jobs[j].total_runs
             /\ Len(batch_jobs[j].results) < batch_jobs[j].total_runs =>
                   batch_jobs[j].status = "running"
             /\ batch_jobs'[j].status = "completed" =>
                   Len(batch_jobs'[j].results) = batch_jobs'[j].total_runs
             /\ batch_jobs'[j].completed_runs >= batch_jobs[j].completed_runs
    ]_vars

\* one job is completed while another job of two runs is half done
C8_Witness ==
    \E j, k \in Jobs :
        /\ batch_jobs[j].status = "completed"
        /\ batch_jobs[k].status = "running"
        /\ batch_jobs[k].total_runs = 2
        /\ batch_jobs[k].completed_runs = 1

\* C9: collected_answers holds every answer synthesized for every question of
\* every page processed so far.
C9_CollectedHoldsAll ==
    \A p \in DOMAIN synth_log :
        \A k \in DOMAIN synth_log[p] :
            k \in DOMAIN collected_answers /\ collected_answers[k] = synth_log[p][k]

\* the positions inside the while loop of fill_form
LoopPcs == {"loop", "extract", "synth", "fill", "check", "next", "submit_find",
            "submit_click", "submit_read"}

\* C10: the page loop of fill_form ends.  No page is processed twice: the loop
\* is on the page the browser shows, which is one of the form's pages, and it
\* has made at most one model call per page; a failure of the Next path or any
\* outcome of Submit never leads back to the top of the loop.  So a call that
\* was started returns or raises.
C10_FillFormEnds ==
    /\ [](pc \in LoopPcs =>
            /\ page_num = bpage
            /\ bpage <= form_pages
            /\ Len(synth_log) \in {page_num - 1, page_num}
            /\ (pc \in {"submit_find", "submit_click", "submit_read"} =>
                   Len(synth_log) = page_num))
    /\ ((pc = "setup") ~> (pc \in {"returned", "raised"}))

\* a call went through every page of the form, clicked Submit and returned
C10_Witness ==
    /\ pc = "returned"
    /\ Len(synth_log) = MaxPages
    /\ "submit" \in {trace[k] : k \in DOMAIN trace}

\* the loop of the synchronous batch has ended and its response is due
SyncLoopDone == sync.active /\ sync.i = sync.runs

\* job j is completed and went through the same runs, with the same outcomes,
\* as the synchronous batch
SameRunsAs(j) ==
    /\ batch_jobs[j].status = "completed"
    /\ bg[j].runs = sync.runs
    /\ bg[j].outcomes = sync.outcomes

\* C11: for the same number of runs and the same sequence of per-run outcomes,
\* the response of /fill-form/batch-sync has the same status, total_runs,
\* successful_submissions, failed_submissions and results as the final record
\* of the background job.
C11_SyncMatchesBackground ==
    \A j \in Jobs :
        (SyncLoopDone /\ SameRunsAs(j)) =>
            /\ SyncResponse.status = batch_jobs[j].status
            /\ SyncResponse.total_runs = batch_jobs[j].total_runs
            /\ SyncResponse.successful_submissions = batch_jobs[j].successful_submissions
            /\ SyncResponse.failed_submissions = batch_jobs[j].failed_submissions
            /\ SyncResponse.results = batch_jobs[j].results

\* a synchronous batch and a completed job both made two runs, the first
\* raised and the second returned, with the same exception and answers
C11_Witness ==
    \E j \in Jobs :
        /\ SyncLoopDone
        /\ SameRunsAs(j)
        /\ sync.runs = 2
        /\ sync.failures = 1
        /\ sync.successes = 1
        /\ "raised" \in DOMAIN sync.outcomes[1]
        /\ sync.outcomes[2] = Returned([k \in {"1"} |-> "b"])

====
